---- MODULE Spec2Model ----
(***************************************************************************)
(* Model of gen_input_consts.py, the constant table generator: it reads    *)
(* input_consts_config.txt, folds the directive and data lines into a      *)
(* buffer of `pub const` declarations and writes the buffer to             *)
(* src/input/input_consts.rs.                                              *)
(*                                                                         *)
(* Text is modelled as sequences of one-character strings, so that         *)
(* slicing, splitting and formatting are computed as the script computes   *)
(* them.                                                                   *)
(***************************************************************************)
EXTENDS Integers, Sequences, FiniteSets, TLC

\* ------------------------------------------------------------------ bounds

\* Largest number of lines (blank ones included) of the input file.
MaxLines == 3

\* --------------------------------------------------------------- literals

NL == "\n"
Comma == ","

KwRegular == <<"R","e","g","u","l","a","r",":">>
KwNamed == <<"N","a","m","e","d",":">>
KwNamePrefix == <<"N","a","m","e","P","r","e","f","i","x",":">>
KwNamePostfix == <<"N","a","m","e","P","o","s","t","f","i","x",":">>
KwValuePrefix == <<"V","a","l","u","e","P","r","e","f","i","x",":">>
KwValuePostfix == <<"V","a","l","u","e","P","o","s","t","f","i","x",":">>
KwType == <<"T","y","p","e",":">>

\* "#![allow(dead_code)]\n#![allow(non_upper_case_globals)]\n"
Header ==
  <<"#","!","[","a","l","l","o","w","(","d","e","a","d","_","c","o","d","e",")","]","\n",
    "#","!","[","a","l","l","o","w","(","n","o","n","_","u","p","p","e","r","_",
    "c","a","s","e","_","g","l","o","b","a","l","s",")","]","\n">>

\* Variant: the script starts in Named mode.
InitialModeNamed == FALSE

\* The value of regularConsts before the first mode directive.
InitialMode == TRUE

\* ---------------------------------------------------------- string helpers

\* s[0:n]
Take(s, n) == SubSeq(s, 1, IF n < Len(s) THEN n ELSE Len(s))

\* s[n:]
Drop(s, n) == SubSeq(s, n + 1, Len(s))

\* s.rstrip('\n')
RECURSIVE RStripNL(_)
RStripNL(s) ==
  IF Len(s) > 0 /\ s[Len(s)] = NL THEN RStripNL(SubSeq(s, 1, Len(s) - 1)) ELSE s

\* Index of the first occurrence of c in s at or after position k, 0 if none.
RECURSIVE Find(_, _, _)
Find(s, c, k) ==
  IF k > Len(s) THEN 0 ELSE IF s[k] = c THEN k ELSE Find(s, c, k + 1)

\* s.split(c): the pieces of s between every occurrence of c.
RECURSIVE Split(_, _)
Split(s, c) ==
  LET k == Find(s, c, 1)
  IN  IF k = 0 THEN <<s>>
      ELSE <<SubSeq(s, 1, k - 1)>> \o Split(SubSeq(s, k + 1, Len(s)), c)

\* ------------------------------------------------------------------- state

VARIABLES
  inFile,        \* input_consts_config.txt, as f.readlines() returns it
  outFile,       \* content of src/input/input_consts.rs
  writes,        \* number of f.write calls of this run
  pc,            \* "start", "loop", "done", "IndexError", "OSError"
  lines,         \* the list built by the reading loop
  i,             \* number of elements of lines the main loop has consumed
  regularConsts,
  namePrefix,
  namePostfix,
  valuePrefix,
  valuePostfix,
  type_,         \* _type
  output,
  prev           \* what the previous run left, once the file was edited and
                 \* the script run again

context == <<regularConsts, namePrefix, namePostfix, valuePrefix, valuePostfix, type_>>
progvars == <<pc, lines, i, context, output, writes>>
vars == <<inFile, outFile, progvars, prev>>

\* ------------------------------------------------------------------ inputs

\* The line texts the input file is drawn from (without line terminator).
LinePool ==
  { <<>>,
    KwRegular, KwNamed,
    KwNamePrefix \o <<"p">>, KwNamePrefix,
    KwNamePostfix \o <<"q">>,
    KwValuePrefix \o <<"v">>,
    KwValuePostfix \o <<"w">>,
    KwType \o <<"x", ",", "1">>,
    KwRegular \o <<"x">>,
    <<"A">>,
    <<"B", ",", "1">>,
    <<"C", ",", "1", ",", "2">>,
    <<"D", ",", "1", ",">>,
    <<"E", ",">> }

\* A file of the given line texts: every line ends with a newline, except
\* possibly the last one when it is not empty.
MakeFile(ts, eofNewline) ==
  [k \in 1..Len(ts) |->
     IF k = Len(ts) /\ ~eofNewline /\ ts[k] # <<>> THEN ts[k] ELSE ts[k] \o <<NL>>]

\* What the target file holds before the first run.
OldContent == <<"o", "l", "d">>

NoRun == [ran |-> FALSE]

\* ----------------------------------------------------------------- reading

\* Variant: the reading loop keeps blank lines (as empty strings).
RECURSIVE ReadLinesKeepBlank(_)
ReadLinesKeepBlank(raw) ==
  IF raw = <<>> THEN <<>>
  ELSE <<RStripNL(Head(raw))>> \o ReadLinesKeepBlank(Tail(raw))

\* for line in f.readlines(): if line != "\n": lines.append(line.rstrip('\n'))
RECURSIVE ReadLines(_)
ReadLines(raw) ==
  IF raw = <<>> THEN <<>>
  ELSE IF Head(raw) # <<NL>>
       THEN <<RStripNL(Head(raw))>> \o ReadLines(Tail(raw))
       ELSE ReadLines(Tail(raw))

Init ==
  /\ \E n \in 0..MaxLines : \E ts \in [1..n -> LinePool] : \E eofNewline \in BOOLEAN :
       inFile = MakeFile(ts, eofNewline)
  /\ outFile = OldContent
  /\ writes = 0
  /\ pc = "start"
  /\ lines = <<>>
  /\ i = 0
  /\ regularConsts = InitialMode
  /\ namePrefix = <<>>
  /\ namePostfix = <<>>
  /\ valuePrefix = <<>>
  /\ valuePostfix = <<>>
  /\ type_ = <<>>
  /\ output = Header
  /\ prev = NoRun

\* Lines 4-17: the file is read and the globals are set.
ReadInput ==
  /\ pc = "start"
  /\ lines' = ReadLines(inFile)
  /\ i' = 0
  /\ regularConsts' = InitialMode
  /\ namePrefix' = <<>>
  /\ namePostfix' = <<>>
  /\ valuePrefix' = <<>>
  /\ valuePostfix' = <<>>
  /\ type_' = <<>>
  /\ output' = Header
  /\ pc' = "loop"
  /\ UNCHANGED <<inFile, outFile, writes, prev>>

\* open(IN_DIR, 'r') raises: the input path is missing or unreadable.
ReadInputFails ==
  /\ pc = "start"
  /\ pc' = "OSError"
  /\ UNCHANGED <<inFile, outFile, writes, lines, i, context, output, prev>>

\* --------------------------------------------------------------- main loop

\* Variant: the mode directives are recognised by prefix, like the others.
DispatchByPrefix(line) ==
  IF Take(line, 8) = KwRegular THEN "Regular"
  ELSE IF Take(line, 6) = KwNamed THEN "Named"
  ELSE IF Take(line, 11) = KwNamePrefix THEN "NamePrefix"
  ELSE IF Take(line, 12) = KwNamePostfix THEN "NamePostfix"
  ELSE IF Take(line, 12) = KwValuePrefix THEN "ValuePrefix"
  ELSE IF Take(line, 13) = KwValuePostfix THEN "ValuePostfix"
  ELSE IF Take(line, 5) = KwType THEN "Type"
  ELSE "data"

\* The branch of the if/elif chain a line takes.
Dispatch(line) ==
  IF line = KwRegular THEN "Regular"
  ELSE IF line = KwNamed THEN "Named"
  ELSE IF Take(line, 11) = KwNamePrefix THEN "NamePrefix"
  ELSE IF Take(line, 12) = KwNamePostfix THEN "NamePostfix"
  ELSE IF Take(line, 12) = KwValuePrefix THEN "ValuePrefix"
  ELSE IF Take(line, 13) = KwValuePostfix THEN "ValuePostfix"
  ELSE IF Take(line, 5) = KwType THEN "Type"
  ELSE "data"

\* Variant: the name affixes are applied the wrong way round.
fmtSwapped(name, value) ==
  <<"p","u","b"," ","c","o","n","s","t"," ">>
    \o namePostfix \o name \o namePrefix
    \o <<":", " ">> \o type_
    \o <<" ", "=", " ">> \o valuePrefix \o value \o valuePostfix
    \o <<";", "\n">>

\* Variant: the declaration is not ended by a newline.
fmtNoNewline(name, value) ==
  <<"p","u","b"," ","c","o","n","s","t"," ">>
    \o namePrefix \o name \o namePostfix
    \o <<":", " ">> \o type_
    \o <<" ", "=", " ">> \o valuePrefix \o value \o valuePostfix
    \o <<";">>

\* f"pub const {namePrefix + name + namePostfix}: {_type} = {valuePrefix + value + valuePostfix};\n"
fmt(name, value) ==
  <<"p","u","b"," ","c","o","n","s","t"," ">>
    \o namePrefix \o name \o namePostfix
    \o <<":", " ">> \o type_
    \o <<" ", "=", " ">> \o valuePrefix \o value \o valuePostfix
    \o <<";", "\n">>

\* Variant: output = decl.
AssignOut(out, decl) == decl

\* output += decl
AppendOut(out, decl) == out \o decl

\* Variant: no special case for a trailing comma.
NamedPartsPlainSplit(line) == Split(line, Comma)

\* The list `parts` of the Named branch; line[-1] needs a non-empty line.
NamedParts(line) ==
  IF line[Len(line)] = Comma
  THEN <<Split(line, Comma)[1], <<Comma>>>>
  ELSE Split(line, Comma)

\* Whether the Named branch raises IndexError: line[-1] on an empty line, or
\* parts[1] on a list of one element.
NamedRaises(line) == IF Len(line) = 0 THEN TRUE ELSE Len(NamedParts(line)) < 2

Current == lines[i + 1]

AtLine(branch) ==
  /\ pc = "loop"
  /\ i < Len(lines)
  /\ Dispatch(Current) = branch

Advance ==
  /\ i' = i + 1
  /\ UNCHANGED <<pc, lines, inFile, outFile, writes, prev>>

SetRegular ==
  /\ AtLine("Regular")
  /\ regularConsts' = TRUE
  /\ Advance
  /\ UNCHANGED <<namePrefix, namePostfix, valuePrefix, valuePostfix, type_, output>>

SetNamed ==
  /\ AtLine("Named")
  /\ regularConsts' = FALSE
  /\ Advance
  /\ UNCHANGED <<namePrefix, namePostfix, valuePrefix, valuePostfix, type_, output>>

SetNamePrefix ==
  /\ AtLine("NamePrefix")
  /\ namePrefix' = Drop(Current, 11)
  /\ Advance
  /\ UNCHANGED <<regularConsts, namePostfix, valuePrefix, valuePostfix, type_, output>>

SetNamePostfix ==
  /\ AtLine("NamePostfix")
  /\ namePostfix' = Drop(Current, 12)
  /\ Advance
  /\ UNCHANGED <<regularConsts, namePrefix, valuePrefix, valuePostfix, type_, output>>

SetValuePrefix ==
  /\ AtLine("ValuePrefix")
  /\ valuePrefix' = Drop(Current, 12)
  /\ Advance
  /\ UNCHANGED <<regularConsts, namePrefix, namePostfix, valuePostfix, type_, output>>

SetValuePostfix ==
  /\ AtLine("ValuePostfix")
  /\ valuePostfix' = Drop(Current, 13)
  /\ Advance
  /\ UNCHANGED <<regularConsts, namePrefix, namePostfix, valuePrefix, type_, output>>

SetType ==
  /\ AtLine("Type")
  /\ type_' = Drop(Current, 5)
  /\ Advance
  /\ UNCHANGED <<regularConsts, namePrefix, namePostfix, valuePrefix, valuePostfix, output>>

EmitRegular ==
  /\ AtLine("data")
  /\ regularConsts
  /\ output' = AppendOut(output, fmt(Current, Current))
  /\ Advance
  /\ UNCHANGED context

EmitNamed ==
  /\ AtLine("data")
  /\ ~regularConsts
  /\ ~NamedRaises(Current)
  /\ output' = AppendOut(output, fmt(NamedParts(Current)[1], NamedParts(Current)[2]))
  /\ Advance
  /\ UNCHANGED context

\* Variant: the bad line is skipped and the loop goes on.
NamedSkipBadLine ==
  /\ AtLine("data")
  /\ ~regularConsts
  /\ NamedRaises(Current)
  /\ Advance
  /\ UNCHANGED <<context, output>>

\* Variant: what was accumulated is written out before the run fails.
NamedIndexErrorFlush ==
  /\ AtLine("data")
  /\ ~regularConsts
  /\ NamedRaises(Current)
  /\ pc' = "IndexError"
  /\ outFile' = output
  /\ writes' = writes + 1
  /\ UNCHANGED <<inFile, lines, i, context, output, prev>>

\* The uncaught IndexError ends the run where it is.
NamedIndexError ==
  /\ AtLine("data")
  /\ ~regularConsts
  /\ NamedRaises(Current)
  /\ pc' = "IndexError"
  /\ UNCHANGED <<inFile, outFile, writes, lines, i, context, output, prev>>

\* ------------------------------------------------------------------- write

\* with open(OUT_DIR, 'w') as f: f.write(output)
WriteOutput ==
  /\ pc = "loop"
  /\ i = Len(lines)
  /\ outFile' = output
  /\ writes' = writes + 1
  /\ pc' = "done"
  /\ UNCHANGED <<inFile, lines, i, context, output, prev>>

\* open(OUT_DIR, 'w') raises: the target path is not writable.
WriteOutputFails ==
  /\ pc = "loop"
  /\ i = Len(lines)
  /\ pc' = "OSError"
  /\ UNCHANGED <<inFile, outFile, writes, lines, i, context, output, prev>>

Next ==
  \/ ReadInput
  \/ ReadInputFails
  \/ SetRegular
  \/ SetNamed
  \/ SetNamePrefix
  \/ SetNamePostfix
  \/ SetValuePrefix
  \/ SetValuePostfix
  \/ SetType
  \/ EmitRegular
  \/ EmitNamed
  \/ NamedIndexError
  \/ WriteOutput
  \/ WriteOutputFails

Spec == Init /\ [][Next]_vars

\* ------------------------------------------------- editing and running again

InsertAt(f, p) == SubSeq(f, 1, p) \o <<<<NL>>>> \o SubSeq(f, p + 1, Len(f))

RemoveAt(f, p) == SubSeq(f, 1, p - 1) \o SubSeq(f, p + 1, Len(f))

\* The files one blank line away from f: one blank line more (a line can only
\* follow a terminated line) or one blank line less.
BlankEdits(f) ==
  { InsertAt(f, p) : p \in { q \in 0..Len(f) :
        /\ Len(f) < MaxLines
        /\ (q = Len(f) /\ q > 0 => f[q][Len(f[q])] = NL) } }
    \cup { RemoveAt(f, p) : p \in { q \in 1..Len(f) : f[q] = <<NL>> } }

\* Once a run has ended, someone inserts or removes a blank line of the input
\* file and starts the script again: a fresh process on the edited file. What
\* the ended run left is kept in prev.
EditBlankLines ==
  /\ pc \in {"done", "IndexError"}
  /\ inFile' \in BlankEdits(inFile)
  /\ prev' = [ran |-> TRUE, pc |-> pc, context |-> context, output |-> output]
  /\ pc' = "start"
  /\ lines' = <<>>
  /\ i' = 0
  /\ regularConsts' = InitialMode
  /\ namePrefix' = <<>>
  /\ namePostfix' = <<>>
  /\ valuePrefix' = <<>>
  /\ valuePostfix' = <<>>
  /\ type_' = <<>>
  /\ output' = Header
  /\ writes' = 0
  /\ UNCHANGED outFile

NextRerun ==
  \/ Next
  \/ EditBlankLines

SpecRerun == Init /\ [][NextRerun]_vars

\* ------------------------------------------------- vocabulary of the claims

StartsWith(s, kw) == Len(s) >= Len(kw) /\ SubSeq(s, 1, Len(kw)) = kw

EndsWith(s, t) == Len(s) >= Len(t) /\ SubSeq(s, Len(s) - Len(t) + 1, Len(s)) = t

IsPrefix(s, t) == StartsWith(t, s)

IsInfix(s, t) == \E k \in 0..(Len(t) - Len(s)) : SubSeq(t, k + 1, k + Len(s)) = s

FieldKeywords == {KwNamePrefix, KwNamePostfix, KwValuePrefix, KwValuePostfix, KwType}

IsModeDirective(l) == l = KwRegular \/ l = KwNamed

IsDirective(l) == IsModeDirective(l) \/ \E kw \in FieldKeywords : StartsWith(l, kw)

IsData(l) == l # <<>> /\ ~IsDirective(l)

HasComma(l) == \E k \in 1..Len(l) : l[k] = Comma

EndsWithComma(l) == Len(l) > 0 /\ l[Len(l)] = Comma

FirstComma(l) == CHOOSE k \in 1..Len(l) : l[k] = Comma /\ \A j \in 1..(k - 1) : l[j] # Comma

BeforeFirstComma(l) == SubSeq(l, 1, FirstComma(l) - 1)

AfterFirstComma(l) == SubSeq(l, FirstComma(l) + 1, Len(l))

\* The declaration line with the given identifier, type and initializer.
Decl(ident, ty, init) ==
  <<"p","u","b"," ","c","o","n","s","t"," ">> \o ident
    \o <<":", " ">> \o ty \o <<" ", "=", " ">> \o init \o <<";", "\n">>

\* The main loop is about to process lines[i + 1].
Processing == pc = "loop" /\ i < Len(lines)

\* The indices of the data lines among the first k elements of lines.
DataIndices(k) == { j \in 1..k : IsData(lines[j]) }

CountNL(s) == Cardinality({ k \in 1..Len(s) : s[k] = NL })

\* The remainder of the most recent line among the first k that starts with
\* kw, the empty string when there is none.
LastSet(kw, k) ==
  LET at == { j \in 1..k : StartsWith(lines[j], kw) }
  IN  IF at = {} THEN <<>>
      ELSE LET j == CHOOSE m \in at : \A n \in at : n <= m
           IN  SubSeq(lines[j], Len(kw) + 1, Len(lines[j]))

\* Whether the most recent mode directive among the first k lines leaves the
\* mode Regular; Regular when there is none.
RegularAt(k) ==
  LET at == { j \in 1..k : IsModeDirective(lines[j]) }
  IN  IF at = {} THEN TRUE
      ELSE lines[CHOOSE m \in at : \A n \in at : n <= m] = KwRegular

\* ------------------------------------------------------------------ claims

\* C1 (as stated): in Named mode a data line with a comma that does not end
\* with a comma is emitted with the text before its first comma as name and
\* ALL the text after its first comma as value, also when it holds two or
\* more commas.
C1_SplitOnFirstCommaOnly ==
  [][ (Processing /\ ~regularConsts /\ IsData(Current)
         /\ HasComma(Current) /\ ~EndsWithComma(Current))
      => output' = output \o Decl(namePrefix \o BeforeFirstComma(Current) \o namePostfix,
                                  type_,
                                  valuePrefix \o AfterFirstComma(Current) \o valuePostfix)
    ]_vars

\* C2: in Named mode a data line whose last character is a comma yields
\* exactly one declaration, named by the text before the first comma and with
\* the raw value ",", and the run goes on to the next line.
C2_TrailingCommaValue ==
  [][ (Processing /\ ~regularConsts /\ IsData(Current) /\ EndsWithComma(Current))
      => /\ pc' = "loop"
         /\ i' = i + 1
         /\ output' = output \o Decl(namePrefix \o BeforeFirstComma(Current) \o namePostfix,
                                     type_,
                                     valuePrefix \o <<Comma>> \o valuePostfix)
    ]_vars

C2_Witness ==
  /\ pc = "done"
  /\ ~regularConsts
  /\ i >= 2
  /\ lines[i] = <<"D", ",", "1", ",">>
  /\ EndsWith(outFile, Decl(namePrefix \o <<"D">> \o namePostfix, type_,
                            valuePrefix \o <<Comma>> \o valuePostfix))

\* C3: a Named-mode data line without a comma makes the run fail at that
\* line: nothing is emitted for it, the loop does not move on, and nothing
\* happens after the failure; no other line makes the run fail this way.
C3_NoCommaIsFatal ==
  [][ /\ (Processing /\ ~regularConsts /\ IsData(Current) /\ ~HasComma(Current))
         => (pc' = "IndexError" /\ i' = i /\ output' = output /\ outFile' = outFile)
      /\ (pc' = "IndexError" /\ pc # "IndexError")
         => (Processing /\ ~regularConsts /\ IsData(Current) /\ ~HasComma(Current))
      /\ pc = "IndexError" => UNCHANGED vars
    ]_vars

C3_Witness ==
  /\ pc = "IndexError"
  /\ i >= 1
  /\ i + 1 < Len(lines)
  /\ lines[i + 1] = <<"A">>
  /\ IsData(lines[i + 2])
  /\ CountNL(output) = 2 + Cardinality(DataIndices(i))

\* C4: a data line processed while the mode is Regular (no mode directive
\* before it, or the latest one is Regular:) emits one declaration whose name
\* and value are both the whole line.
C4_RegularLineIsNameAndValue ==
  [][ (Processing /\ RegularAt(i) /\ IsData(Current))
      => /\ pc' = "loop"
         /\ i' = i + 1
         /\ output' = output \o Decl(namePrefix \o Current \o namePostfix,
                                     type_,
                                     valuePrefix \o Current \o valuePostfix)
    ]_vars

C4_Witness ==
  /\ pc = "loop"
  /\ i = 1
  /\ lines[1] = <<"B", ",", "1">>
  /\ output = Header \o Decl(<<"B", ",", "1">>, <<>>, <<"B", ",", "1">>)

\* The texts a name or a value taken from line l can be: a piece of l, or the
\* lone comma of the trailing-comma case.
Pieces(l) ==
  { SubSeq(l, a, b) : a \in 1..(Len(l) + 1), b \in 0..Len(l) } \cup { <<Comma>> }

\* Whether d is a declaration built with the fields the latest directives
\* among the first k lines set, for some name and value taken from line l.
IsDeclWithFields(d, l, k) ==
  \E name \in Pieces(l) :
    LET upToValue ==
          <<"p","u","b"," ","c","o","n","s","t"," ">>
            \o LastSet(KwNamePrefix, k) \o name \o LastSet(KwNamePostfix, k)
            \o <<":", " ">> \o LastSet(KwType, k)
            \o <<" ", "=", " ">> \o LastSet(KwValuePrefix, k)
    IN  /\ StartsWith(d, upToValue)
        /\ \E value \in Pieces(l) :
             d = Decl(LastSet(KwNamePrefix, k) \o name \o LastSet(KwNamePostfix, k),
                      LastSet(KwType, k),
                      LastSet(KwValuePrefix, k) \o value \o LastSet(KwValuePostfix, k))

\* C5: every emitted declaration is name-prefix + name + name-suffix, the
\* type, and value-prefix + value + value-suffix, each of the five fields
\* being what the most recent directive of its kind before the data line set,
\* or empty when there is none.
C5_FieldsFromLatestDirective ==
  [][ /\ pc = "loop"
         => /\ namePrefix = LastSet(KwNamePrefix, i)
            /\ namePostfix = LastSet(KwNamePostfix, i)
            /\ valuePrefix = LastSet(KwValuePrefix, i)
            /\ valuePostfix = LastSet(KwValuePostfix, i)
            /\ type_ = LastSet(KwType, i)
      /\ (Processing /\ IsData(Current) /\ output' # output)
         => /\ IsPrefix(output, output')
            /\ IsDeclWithFields(SubSeq(output', Len(output) + 1, Len(output')), Current, i)
    ]_vars

C5_Witness ==
  /\ pc = "done"
  /\ lines = << KwNamePrefix \o <<"p">>, <<"A">>, <<"B", ",", "1">> >>
  /\ outFile = Header \o Decl(<<"p", "A">>, <<>>, <<"A">>)
                      \o Decl(<<"p", "B", ",", "1">>, <<>>, <<"B", ",", "1">>)

\* A line of the file without its terminator.
RawText(l) == IF EndsWith(l, <<NL>>) THEN SubSeq(l, 1, Len(l) - 1) ELSE l

RawDataIndices == { j \in 1..Len(inFile) : IsData(RawText(inFile[j])) }

\* What identifies a data line in its declaration: the text before its first
\* comma, or the whole line.
Key(l) == IF HasComma(l) THEN BeforeFirstComma(l) ELSE l

\* C6: the output is the two header lines followed by one declaration line
\* per data line processed so far, in the order of the data lines; directives
\* and blank lines add no line.
C6_OneDeclarationPerDataLine ==
  /\ pc \in {"loop", "done", "IndexError"}
     => LET outLines == Split(output, NL)
        IN  /\ StartsWith(output, Header)
            /\ Len(outLines) = 3 + Cardinality(DataIndices(i))
            /\ outLines[Len(outLines)] = <<>>
            /\ \A j \in DataIndices(i) :
                 IsInfix(Key(lines[j]), outLines[2 + Cardinality(DataIndices(j))])
  /\ pc = "done"
     => /\ i = Len(lines)
        /\ outFile = output
        /\ CountNL(outFile) = 2 + Cardinality(RawDataIndices)

C6_Witness ==
  /\ pc = "done"
  /\ Len(inFile) = 3
  /\ inFile[2] = <<NL>>
  /\ IsData(RawText(inFile[1]))
  /\ IsData(RawText(inFile[3]))
  /\ CountNL(outFile) = 4

\* C7: blank lines are dropped by the reading loop, and a run on the file
\* with a blank line inserted or removed ends as the run before the edit did:
\* same mode, affixes, type and output.
C7_BlankLinesChangeNothing ==
  /\ pc # "start" => \A k \in 1..Len(lines) : lines[k] # <<>>
  /\ (prev.ran /\ pc \in {"done", "IndexError"})
     => /\ pc = prev.pc
        /\ context = prev.context
        /\ output = prev.output

C7_Witness ==
  /\ prev.ran
  /\ pc = "done"
  /\ \E k \in 1..Len(inFile) : inFile[k] = <<NL>>
  /\ ~regularConsts
  /\ CountNL(output) = 3

\* C8: the output buffer only grows at its end, and a directive leaves it as
\* it is: what was emitted for a data line is never changed by a later line.
C8_OutputAppendOnly ==
  [][ /\ IsPrefix(output, output')
      /\ (Processing /\ IsDirective(Current)) => output' = output
    ]_vars

C8_Witness ==
  /\ pc = "done"
  /\ lines = << <<"A">>, KwNamePrefix \o <<"p">>, KwNamed >>
  /\ outFile = Header \o Decl(<<"A">>, <<>>, <<"A">>)

\* C9: a line equal to Regular: or Named: changes the mode only; a line that
\* starts with one of the five field keywords sets that field to the rest of
\* the line and nothing else; none of them emits, whatever the mode; any other
\* line, such as Regular:x, is a data line.
C9_DirectiveFrame ==
  [][ Processing =>
        LET l == Current
            rest(kw) == SubSeq(l, Len(kw) + 1, Len(l))
        IN  /\ l = KwRegular
               => /\ regularConsts' = TRUE
                  /\ UNCHANGED <<namePrefix, namePostfix, valuePrefix, valuePostfix, type_>>
            /\ l = KwNamed
               => /\ regularConsts' = FALSE
                  /\ UNCHANGED <<namePrefix, namePostfix, valuePrefix, valuePostfix, type_>>
            /\ StartsWith(l, KwNamePrefix)
               => /\ namePrefix' = rest(KwNamePrefix)
                  /\ UNCHANGED <<regularConsts, namePostfix, valuePrefix, valuePostfix, type_>>
            /\ StartsWith(l, KwNamePostfix)
               => /\ namePostfix' = rest(KwNamePostfix)
                  /\ UNCHANGED <<regularConsts, namePrefix, valuePrefix, valuePostfix, type_>>
            /\ StartsWith(l, KwValuePrefix)
               => /\ valuePrefix' = rest(KwValuePrefix)
                  /\ UNCHANGED <<regularConsts, namePrefix, namePostfix, valuePostfix, type_>>
            /\ StartsWith(l, KwValuePostfix)
               => /\ valuePostfix' = rest(KwValuePostfix)
                  /\ UNCHANGED <<regularConsts, namePrefix, namePostfix, valuePrefix, type_>>
            /\ StartsWith(l, KwType)
               => /\ type_' = rest(KwType)
                  /\ UNCHANGED <<regularConsts, namePrefix, namePostfix, valuePrefix, valuePostfix>>
            /\ IsDirective(l)
               => /\ output' = output
                  /\ pc' = "loop"
                  /\ i' = i + 1
                  /\ UNCHANGED <<outFile, writes>>
            /\ IsData(l)
               => /\ UNCHANGED context
                  /\ output' # output \/ pc' = "IndexError"
    ]_vars

C9_Witness ==
  /\ pc = "loop"
  /\ i = 2
  /\ lines = << KwNamed, KwType \o <<"x", ",", "1">>, KwRegular \o <<"x">> >>
  /\ ~regularConsts
  /\ type_ = <<"x", ",", "1">>
  /\ namePrefix = <<>> /\ namePostfix = <<>> /\ valuePrefix = <<>> /\ valuePostfix = <<>>
  /\ output = Header

\* C10: the target file is written at most once, and only when every line
\* has been processed; a run that fails on a Named-mode line without a comma
\* writes nothing and leaves the target file as it was.
C10_WriteOnceAtEnd ==
  /\ writes <= 1
  /\ writes = 1 => (pc = "done" /\ i = Len(lines) /\ outFile = output)
  /\ writes = 0 => outFile = OldContent
  /\ pc = "IndexError" => (writes = 0 /\ outFile = OldContent)

C10_Witness ==
  /\ pc = "IndexError"
  /\ output # Header
  /\ writes = 0
  /\ outFile = OldContent

====
